---------------------------- MODULE Spec2Model ----------------------------
(***************************************************************************)
(* Model of the Kubernetes orchestrator entrypoint configuration           *)
(* (get_fixed_step_args, get_step_specific_args,                           *)
(* KubernetesOrchestratorEntrypointConfiguration.get_entrypoint_arguments) *)
(* and of the GCP artifact store (filesystem, copyfile, rename).           *)
(*                                                                         *)
(* Four specifications share the variables below:                          *)
(*   SpecCodec      the two argument-partition functions on one list       *)
(*   SpecBuilder    get_entrypoint_arguments on one pipeline               *)
(*   SpecStore      copyfile / rename by one caller                        *)
(*   SpecStoreConc  copyfile / rename by two callers, steps interleaved    *)
(***************************************************************************)
EXTENDS Naturals, Sequences, FiniteSets

VARIABLES
    \* --- argument codec ---
    step_args,          \* the argument list handed to the two functions
    fixed_args,         \* NoResult, or what get_fixed_step_args(step_args)
                        \* returned and the indices whose slice it appended
    specific_args,      \* the same for get_step_specific_args(step_args)
    \* --- launch plan builder ---
    sorted_steps,       \* input: step names in execution order
    step_arg_lists,     \* input: step name -> what _get_step_args returns for it
    step_dependencies,  \* input: step name -> names of the steps before it
    entrypoint,         \* outcome of get_entrypoint_arguments
    \* --- artifact store ---
    callers,            \* the threads using the one store object
    store,              \* the bucket: path -> content, or Absent
    filesystem,         \* self._filesystem: None, or the handle cached
    resolved,           \* number of get_authentication_secret round trips
    constructed,        \* number of gcsfs.GCSFileSystem objects constructed
    call,               \* per caller: the call in progress and its position
    calls_left,         \* per caller: number of calls it may still start
    writes              \* history: the backend copies / moves, in order

codec_vars   == <<step_args, fixed_args, specific_args>>
builder_vars == <<sorted_steps, step_arg_lists, step_dependencies, entrypoint>>
store_vars   == <<callers, store, filesystem, resolved, constructed, call,
                  calls_left, writes>>
vars == <<codec_vars, builder_vars, store_vars>>

Min(a, b) == IF a < b THEN a ELSE b

RECURSIVE SeqsUpTo(_, _)
\* all sequences over S of length at most n
SeqsUpTo(S, n) ==
    IF n = 0 THEN {<<>>}
    ELSE LET shorter == SeqsUpTo(S, n - 1)
         IN  shorter \cup {Append(s, x) : s \in {t \in shorter : Len(t) = n - 1}, x \in S}

RECURSIVE Flatten(_)
\* concatenation of a sequence of sequences (python's `+=` over the chunks)
Flatten(chunks) ==
    IF chunks = <<>> THEN <<>> ELSE Head(chunks) \o Flatten(Tail(chunks))

Range(s) == {s[i] : i \in DOMAIN s}

(***************************************************************************)
(* Strings.  A python str is modelled by the number of "-" it begins with  *)
(* and the text after them, which is what startswith("--") and arg[2:]     *)
(* look at:  "--run_name" is Str(2, "run_name"), "run1" is Str(0, "run1"). *)
(***************************************************************************)
Str(dashes, rest) == [dashes |-> dashes, rest |-> rest]

\* arg.startswith("--")
StartsWithMarker(arg) == arg.dashes >= 2

\* arg[2:] of an arg that starts with "--"
AfterMarker(arg) == Str(arg.dashes - 2, arg.rest)

\* f"--{option}"
Option(name) == Str(2, name)

\* The option names.  The first four are imported from modules outside the
\* sources at hand; the model needs them only to be distinct strings.
STEP_SOURCE_OPTION == "step_source"
INPUT_ARTIFACT_SOURCES_OPTION == "input_artifact_sources"
MATERIALIZER_SOURCES_OPTION == "materializer_sources"
RUN_NAME_OPTION == "run_name"
PIPELINE_NAME_OPTION == "pipeline_name"
IMAGE_NAME_OPTION == "image_name"
NAMESPACE_OPTION == "kubernetes_namespace"
PIPELINE_CONFIG_OPTION == "pipeline_config"

\* options from StepEntrypointConfiguration that change from step to step
STEP_SPECIFIC_STEP_ENTRYPOINT_OPTIONS ==
    { Str(0, STEP_SOURCE_OPTION),
      Str(0, INPUT_ARTIFACT_SOURCES_OPTION),
      Str(0, MATERIALIZER_SOURCES_OPTION) }

(***************************************************************************)
(* get_fixed_step_args.  The loop visits every index i; TakenAt is the     *)
(* condition under which `fixed_args += option_and_value` runs at i, and   *)
(* OptionAndValue is the slice step_args[i : i + 2] (one element long at   *)
(* the last index).                                                        *)
(***************************************************************************)
OptionAndValue(args, i) == SubSeq(args, i, Min(i + 1, Len(args)))

\* a classification that forgets the step-specific options
IsFixed_AllFixed(arg) == TRUE

\* is_fixed = arg[2:] not in STEP_SPECIFIC_STEP_ENTRYPOINT_OPTIONS
IsFixed(arg) == AfterMarker(arg) \notin STEP_SPECIFIC_STEP_ENTRYPOINT_OPTIONS

TakenAt(args, get_fixed, i) ==
    /\ StartsWithMarker(args[i])            \* else: `continue`
    /\ IsFixed(args[i]) = get_fixed         \* is_correct_category

RECURSIVE TakenFrom(_, _, _)
\* the indices, in loop order from i on, at which a slice is appended
TakenFrom(args, get_fixed, i) ==
    IF i > Len(args) THEN <<>>
    ELSE (IF TakenAt(args, get_fixed, i) THEN <<i>> ELSE <<>>)
         \o TakenFrom(args, get_fixed, i + 1)

TakenIndices(args, get_fixed) == TakenFrom(args, get_fixed, 1)

get_fixed_step_args(args, get_fixed) ==
    LET taken == TakenIndices(args, get_fixed)
    IN  Flatten([k \in 1..Len(taken) |-> OptionAndValue(args, taken[k])])

get_step_specific_args(args) == get_fixed_step_args(args, FALSE)

(***************************************************************************)
(* SpecCodec: the two functions applied to one argument list.              *)
(***************************************************************************)
NotCalled == "NotCalled"
None == "None"

\* a function not called yet
NoResult == [called |-> FALSE, returned |-> <<>>, taken |-> {}]

\* longest argument list tried
MaxLen == 4

\* the strings argument lists are made of: fixed and step-specific options,
\* plain values, and a value with a single dash
ArgStrings ==
    { Option(RUN_NAME_OPTION), Option(IMAGE_NAME_OPTION),
      Option(STEP_SOURCE_OPTION), Option(MATERIALIZER_SOURCES_OPTION),
      Str(0, "run1"), Str(1, "v") }

\* the state shared by the specifications that do not use the codec variables
CodecIdle ==
    /\ step_args = <<>>
    /\ fixed_args = NoResult
    /\ specific_args = NoResult

CodecInit ==
    /\ step_args \in SeqsUpTo(ArgStrings, MaxLen)
    /\ fixed_args = NoResult
    /\ specific_args = NoResult

\* get_fixed_step_args(step_args)
CallGetFixedStepArgs ==
    /\ ~fixed_args.called
    /\ fixed_args' = [called |-> TRUE,
                       returned |-> get_fixed_step_args(step_args, TRUE),
                       taken |-> Range(TakenIndices(step_args, TRUE))]
    /\ UNCHANGED <<step_args, specific_args, builder_vars, store_vars>>

\* get_step_specific_args(step_args)
CallGetStepSpecificArgs ==
    /\ ~specific_args.called
    /\ specific_args' = [called |-> TRUE,
                          returned |-> get_step_specific_args(step_args),
                          taken |-> Range(TakenIndices(step_args, FALSE))]
    /\ UNCHANGED <<step_args, fixed_args, builder_vars, store_vars>>

CodecNext == CallGetFixedStepArgs \/ CallGetStepSpecificArgs

(***************************************************************************)
(* SpecBuilder: get_entrypoint_arguments on one pipeline.                  *)
(*                                                                         *)
(* _get_step_args delegates to KubernetesStepEntrypointConfiguration,      *)
(* which is not part of the sources at hand: what it returns for a step is *)
(* an input, step_arg_lists[step], an ordered list of "--option", value    *)
(* pairs.                                                                  *)
(***************************************************************************)
StepNames == {"A", "B"}

\* most option/value pairs in one step's argument list
MaxPairs == 3

\* the option/value pairs a step's argument list is made of
StepPairs ==
    { <<Option(RUN_NAME_OPTION), Str(0, "run1")>>,
      <<Option("image"), Str(0, "img1")>>,
      <<Option(STEP_SOURCE_OPTION), Str(0, "A.step")>>,
      <<Option(STEP_SOURCE_OPTION), Str(0, "B.step")>> }

\* ["--o1", v1, "--o2", v2, ...] of the pairs <<"--o1", v1>>, <<"--o2", v2>>, ...
FlattenPairs(pairs) == Flatten(pairs)

StepArgLists == {FlattenPairs(ps) : ps \in SeqsUpTo(StepPairs, MaxPairs)}

\* a BaseStep, of which the builder reads the name
Step(name) == [name |-> name]

\* the step lists tried: no name twice
StepLists ==
    {steps \in SeqsUpTo({Step(n) : n \in StepNames}, Cardinality(StepNames)) :
        \A i, j \in DOMAIN steps : steps[i] = steps[j] => i = j}

\* the dependency maps tried (name -> the names that run before it): none,
\* B after A, and a cycle
DependencyMaps ==
    { <<>>,
      [n \in {"B"} |-> {"A"}],
      [n \in {"A", "B"} |-> {"A", "B"} \ {n}] }

_get_step_args(step) == step_arg_lists[step.name]

\* step_names = [step.name for step in sorted_steps]
StepNamesOf(steps) == [i \in 1..Len(steps) |-> steps[i].name]

\* sorted_steps[0]: python raises IndexError on an empty list
FirstStep_NoError(steps) ==
    IF steps = <<>> THEN [raised |-> FALSE, args |-> <<>>]
    ELSE [raised |-> FALSE, args |-> _get_step_args(steps[1])]

FirstStepArgs(steps) ==
    IF steps = <<>> THEN [raised |-> TRUE]
    ELSE [raised |-> FALSE, args |-> _get_step_args(steps[1])]

\* {step.name: get_step_specific_args(_get_step_args(step)) for step in ...}
StepSpecificArgs_SkipFirst(steps) ==
    [name \in Range(StepNamesOf(Tail(steps))) |->
        get_step_specific_args(_get_step_args(Step(name)))]

StepSpecificArgs(steps) ==
    [name \in Range(StepNamesOf(steps)) |->
        get_step_specific_args(_get_step_args(Step(name)))]

\* KubernetesStepEntrypointConfiguration.get_entrypoint_command()
StepEntrypointCommand == "step_command"

\* json.dumps: the document, kept as the structure it serializes
JsonDumps(document) == [json |-> document]

PipelineConfig(steps, dependencies) ==
    [ sorted_steps       |-> StepNamesOf(steps),
      step_command       |-> StepEntrypointCommand,
      fixed_step_args    |->
          get_fixed_step_args(FirstStepArgs(steps).args, TRUE),
      step_specific_args |-> StepSpecificArgs(steps),
      step_dependencies  |-> dependencies ]

EntrypointArgs(run_name, pipeline_name, image_name, namespace, config) ==
    << Option(RUN_NAME_OPTION), run_name,
       Option(PIPELINE_NAME_OPTION), pipeline_name,
       Option(IMAGE_NAME_OPTION), image_name,
       Option(NAMESPACE_OPTION), namespace,
       Option(PIPELINE_CONFIG_OPTION), JsonDumps(config) >>

BuilderIdle ==
    /\ sorted_steps = <<>>
    /\ step_arg_lists = <<>>
    /\ step_dependencies = <<>>
    /\ entrypoint = [status |-> NotCalled]

BuilderInit ==
    /\ sorted_steps \in StepLists
    /\ step_arg_lists \in [Range(StepNamesOf(sorted_steps)) -> StepArgLists]
    /\ step_dependencies \in DependencyMaps
    /\ entrypoint = [status |-> NotCalled]

\* get_entrypoint_arguments(run_name, ..., sorted_steps, step_dependencies)
GetEntrypointArguments ==
    /\ entrypoint.status = NotCalled
    /\ \E run_name \in {Str(0, "run1")} :
          entrypoint' =
              IF FirstStepArgs(sorted_steps).raised
              THEN [status |-> "IndexError"]
              ELSE LET config == PipelineConfig(sorted_steps, step_dependencies)
                   IN  [ status |-> "returned",
                         pipeline_config |-> config,
                         args |-> EntrypointArgs(run_name, Str(0, "pipeline"),
                                                 Str(0, "img1"), Str(0, "zenml"),
                                                 config) ]
    /\ UNCHANGED <<sorted_steps, step_arg_lists, step_dependencies,
                   codec_vars, store_vars>>

BuilderNext == GetEntrypointArguments

(***************************************************************************)
(* The GCP artifact store.  One GCPArtifactStore object over one bucket;   *)
(* gcsfs is the backend: exists, copy and rename (a move) each act on the  *)
(* bucket in one step.  A call of copyfile or rename is a sequence of      *)
(* steps of its caller, and the steps of different callers interleave.     *)
(***************************************************************************)
\* gcsfs itself is a library: exists(p) is whether the bucket holds p, copy
\* puts the content of src at dst, rename does so and removes src, and both
\* raise FileNotFoundError when src is missing.  Calls are made with
\* src # dst.
Absent == "Absent"

Paths == {"a", "b", "c"}

\* the content a path holds at the start, when it holds one
ContentOf(path) ==
    CASE path = "a" -> "content of a"
      [] path = "b" -> "content of b"
      [] path = "c" -> "content of c"

\* Optional[gcsfs.GCSFileSystem]: the n-th object constructed, or None
GCSFileSystem(n) == [object |-> "GCSFileSystem", id |-> n]

NoFilesystem == [object |-> "None", id |-> 0]

Operations == {"copyfile", "rename"}

\* calls one caller makes one after the other when it is alone
MaxCalls == 2

\* store0 is history: the bucket when the call was entered
IdleCall(bucket) ==
    [ pc |-> "idle", op |-> None, src |-> None, dst |-> None,
      overwrite |-> FALSE, stage |-> None, fs |-> NoFilesystem, saw |-> None,
      invoked |-> FALSE, result |-> None, store0 |-> bucket ]

StoreIdle ==
    /\ callers = {}
    /\ store = <<>>
    /\ filesystem = NoFilesystem
    /\ resolved = 0
    /\ constructed = 0
    /\ call = <<>>
    /\ calls_left = <<>>
    /\ writes = <<>>

StoreInit(threads, ncalls) ==
    /\ callers = threads
    /\ store \in {[p \in Paths |-> IF p \in present THEN ContentOf(p) ELSE Absent] :
                     present \in SUBSET Paths}
    /\ filesystem = NoFilesystem      \* _filesystem: Optional[...] = None
    /\ resolved = 0
    /\ constructed = 0
    /\ call = [c \in threads |-> IdleCall(store)]
    /\ calls_left = [c \in threads |-> ncalls]
    /\ writes = <<>>

\* the guard `not overwrite and self.filesystem.exists(dst)` needs the
\* existence check only when overwrite is false (`and` short-circuits)
GuardChecksExistence(overwrite) == ~overwrite

\* a caller enters copyfile(src, dst, overwrite) or rename(src, dst, overwrite)
BeginCall(c) ==
    /\ call[c].pc \in {"idle", "done"}
    /\ calls_left[c] > 0
    /\ \E op \in Operations, src \in Paths, dst \in Paths, overwrite \in BOOLEAN :
          /\ src # dst
          /\ call' = [call EXCEPT ![c] =
                [ IdleCall(store) EXCEPT
                    !.pc = "filesystem", !.op = op, !.src = src, !.dst = dst,
                    !.overwrite = overwrite,
                    !.stage = IF GuardChecksExistence(overwrite)
                              THEN "guard" ELSE "act",
                    !.fs = call[c].fs ]]
    /\ calls_left' = [calls_left EXCEPT ![c] = @ - 1]
    /\ UNCHANGED <<callers, store, filesystem, resolved, constructed, writes,
                   codec_vars, builder_vars>>

\* the filesystem property, `if not self._filesystem:`
FilesystemCheck(c) ==
    /\ call[c].pc = "filesystem"
    /\ call' = [call EXCEPT ![c].pc =
                    IF filesystem = NoFilesystem THEN "secret" ELSE "return"]
    /\ UNCHANGED <<callers, store, filesystem, resolved, constructed,
                   calls_left, writes, codec_vars, builder_vars>>

\* secret = self.get_authentication_secret(...); token = ...
GetAuthenticationSecret(c) ==
    /\ call[c].pc = "secret"
    /\ resolved' = resolved + 1
    /\ call' = [call EXCEPT ![c].pc = "construct"]
    /\ UNCHANGED <<callers, store, filesystem, constructed, calls_left, writes,
                   codec_vars, builder_vars>>

\* self._filesystem = gcsfs.GCSFileSystem(token=token)
ConstructFilesystem(c) ==
    /\ call[c].pc = "construct"
    /\ constructed' = constructed + 1
    /\ filesystem' = GCSFileSystem(constructed + 1)
    /\ call' = [call EXCEPT ![c].pc = "return"]
    /\ UNCHANGED <<callers, store, resolved, calls_left, writes,
                   codec_vars, builder_vars>>

\* return self._filesystem
FilesystemReturn(c) ==
    /\ call[c].pc = "return"
    /\ call' = [call EXCEPT ![c].fs = filesystem,
                            ![c].pc = IF call[c].stage = "guard"
                                      THEN "exists" ELSE "act"]
    /\ UNCHANGED <<callers, store, filesystem, resolved, constructed,
                   calls_left, writes, codec_vars, builder_vars>>

\* the guard with the existence test the wrong way round
GuardRaises_Inverted(overwrite, dst_exists) == ~overwrite /\ ~dst_exists

\* `not overwrite and <dst exists>`: the branch that raises FileExistsError

GuardRaises(overwrite, dst_exists) == ~overwrite /\ dst_exists

\* self.filesystem.exists(dst), then raise FileExistsError or go on
ExistsCheck(c) ==
    /\ call[c].pc = "exists"
    /\ LET dst_exists == store[call[c].dst] # Absent
       IN  call' = [call EXCEPT
                ![c].saw = IF dst_exists THEN "exists" ELSE "absent",
                ![c].pc = IF GuardRaises(call[c].overwrite, dst_exists)
                          THEN "done" ELSE "filesystem",
                ![c].stage = "act",
                ![c].result = IF GuardRaises(call[c].overwrite, dst_exists)
                              THEN "FileExistsError" ELSE None]
    /\ UNCHANGED <<callers, store, filesystem, resolved, constructed,
                   calls_left, writes, codec_vars, builder_vars>>

\* a copy or move that would refuse a destination that exists by now
BackendRefuses_Conditional(overwrite, dst_exists_now) ==
    ~overwrite /\ dst_exists_now

\* lines 101 and 204 run the backend operation whatever dst holds by now
BackendRefuses(overwrite, dst_exists_now) == FALSE

\* gcsfs copy (move = FALSE) or rename (move = TRUE) of src to dst
BackendWrite(bucket, src, dst, move) ==
    [p \in Paths |-> IF p = dst THEN bucket[src]
                     ELSE IF move /\ p = src THEN Absent
                     ELSE bucket[p]]

\* self.filesystem.copy(path1=src, path2=dst) / .rename(path1=src, path2=dst)
BackendAct(c, op) ==
    /\ call[c].pc = "act"
    /\ call[c].op = op
    /\ LET k == call[c]
       IN  IF BackendRefuses(k.overwrite, store[k.dst] # Absent)
           THEN /\ call' = [call EXCEPT ![c].pc = "done",
                                        ![c].result = "FileExistsError"]
                /\ UNCHANGED <<store, writes>>
           ELSE IF store[k.src] = Absent
           THEN /\ call' = [call EXCEPT ![c].pc = "done", ![c].invoked = TRUE,
                                        ![c].result = "FileNotFoundError"]
                /\ UNCHANGED <<store, writes>>
           ELSE /\ store' = BackendWrite(store, k.src, k.dst, op = "rename")
                /\ writes' = Append(writes,
                        [caller |-> c, dst |-> k.dst, content |-> store[k.src],
                         replaced |-> store[k.dst]])
                /\ call' = [call EXCEPT ![c].pc = "done", ![c].invoked = TRUE,
                                        ![c].result = "ok"]
    /\ UNCHANGED <<callers, filesystem, resolved, constructed, calls_left,
                   codec_vars, builder_vars>>

Copy(c) == BackendAct(c, "copyfile")

Rename(c) == BackendAct(c, "rename")

StoreNext ==
    \/ \E c \in callers : BeginCall(c)
    \/ \E c \in callers : FilesystemCheck(c)
    \/ \E c \in callers : GetAuthenticationSecret(c)
    \/ \E c \in callers : ConstructFilesystem(c)
    \/ \E c \in callers : FilesystemReturn(c)
    \/ \E c \in callers : ExistsCheck(c)
    \/ \E c \in callers : Copy(c)
    \/ \E c \in callers : Rename(c)

(***************************************************************************)
(* The specifications.                                                     *)
(***************************************************************************)
InitCodec == CodecInit /\ BuilderIdle /\ StoreIdle

SpecCodec == InitCodec /\ [][CodecNext]_vars

InitBuilder == BuilderInit /\ CodecIdle /\ StoreIdle

SpecBuilder == InitBuilder /\ [][BuilderNext]_vars

\* one caller, several calls one after the other
InitStore == StoreInit({"t1"}, MaxCalls) /\ CodecIdle /\ BuilderIdle

SpecStore == InitStore /\ [][StoreNext]_vars

\* two callers, one call each, their steps interleaved
InitStoreConc == StoreInit({"t1", "t2"}, 1) /\ CodecIdle /\ BuilderIdle

SpecStoreConc == InitStoreConc /\ [][StoreNext]_vars

(***************************************************************************)
(* Argument codec: C1, C2, C3 (under SpecCodec).                           *)
(*                                                                         *)
(* The parsing rule the codec is specified by: scanning from the left, an  *)
(* element that begins with "--" is a key and consumes the next element as *)
(* its value; scanning resumes after the value.                            *)
(***************************************************************************)
RECURSIVE KeyPositionsFrom(_, _)
KeyPositionsFrom(args, i) ==
    IF i > Len(args) THEN {}
    ELSE IF StartsWithMarker(args[i])
         THEN {i} \cup KeyPositionsFrom(args, i + 2)
         ELSE KeyPositionsFrom(args, i + 1)

\* indices of the keys of args under the parsing rule
KeyPositions(args) == KeyPositionsFrom(args, 1)

\* indices of the values of args: each follows a key
ValuePositions(args) == {i + 1 : i \in {k \in KeyPositions(args) : k < Len(args)}}

\* the last element is a key with no value after it
TrailingKey(args) == Len(args) > 0 /\ Len(args) \in KeyPositions(args)

VolatileKeys ==
    { Option(STEP_SOURCE_OPTION), Option(INPUT_ARTIFACT_SOURCES_OPTION),
      Option(MATERIALIZER_SOURCES_OPTION) }

RECURSIVE PairsFrom(_, _, _)
\* the complete key/value pairs of args from index i on, in order, whose key
\* is volatile (volatile = TRUE) or invariant (volatile = FALSE)
PairsFrom(args, volatile, i) ==
    IF i > Len(args) THEN <<>>
    ELSE IF ~StartsWithMarker(args[i]) THEN PairsFrom(args, volatile, i + 1)
    ELSE IF i = Len(args) THEN <<>>
    ELSE (IF (args[i] \in VolatileKeys) = volatile
          THEN <<args[i], args[i + 1]>> ELSE <<>>)
         \o PairsFrom(args, volatile, i + 2)

BothCalled == fixed_args.called /\ specific_args.called

\* C1: an element in a value position is never classified as a key: neither
\* function appends a slice that starts at a value position, even when the
\* value begins with "--".
C1_ValuesAreNeverKeys ==
    BothCalled =>
        (fixed_args.taken \cup specific_args.taken)
            \cap ValuePositions(step_args) = {}

\* C2: when the last element is a key with no value, both functions return
\* and the trailing key is in neither partition.
C2_TrailingKeyDropped ==
    (BothCalled /\ TrailingKey(step_args)) =>
        /\ Len(step_args) \notin fixed_args.taken \cup specific_args.taken
        /\ Len(fixed_args.returned) % 2 = 0
        /\ Len(specific_args.returned) % 2 = 0

\* C3: the fixed and the step-specific partition take disjoint pairs, each in
\* the original order, and together exactly the key/value pairs of the input,
\* a trailing unmatched key left out.
C3_PartitionRoundTrip ==
    BothCalled =>
        /\ fixed_args.taken \cap specific_args.taken = {}
        /\ fixed_args.returned = PairsFrom(step_args, FALSE, 1)
        /\ specific_args.returned = PairsFrom(step_args, TRUE, 1)

(***************************************************************************)
(* Launch plan builder: C4, C5, C6, C7 (under SpecBuilder).                *)
(***************************************************************************)
Called == entrypoint.status # NotCalled

Returned == entrypoint.status = "returned"

InputNames == Range(StepNamesOf(sorted_steps))

\* the option/value pairs of a step's argument list, in order
PairsOf(list) == [k \in 1..(Len(list) \div 2) |-> <<list[2 * k - 1], list[2 * k]>>]

IsVolatilePair(pair) == pair[1] \in VolatileKeys

IsInvariantPair(pair) == pair[1] \notin VolatileKeys

InvariantPairs(name) == SelectSeq(PairsOf(step_arg_lists[name]), IsInvariantPair)

VolatilePairs(name) == SelectSeq(PairsOf(step_arg_lists[name]), IsVolatilePair)

\* every step carries the same values for the invariant options
SameInvariantValues ==
    \A m, n \in InputNames : InvariantPairs(m) = InvariantPairs(n)

DependenciesOf(name) ==
    IF name \in DOMAIN step_dependencies THEN step_dependencies[name] ELSE {}

RECURSIVE Upstream(_, _)
\* the names reached from the set `names` in at most k dependency steps
Upstream(names, k) ==
    IF k = 0 THEN names
    ELSE Upstream(names \cup UNION {DependenciesOf(n) : n \in names}, k - 1)

Acyclic ==
    \A n \in DOMAIN step_dependencies :
        n \notin Upstream(DependenciesOf(n), Cardinality(StepNames))

FullyReferenced ==
    \A n \in DOMAIN step_dependencies :
        n \in InputNames /\ step_dependencies[n] \subseteq InputNames

\* a step's dependency set names an identifier that is not a step
DanglingReference ==
    \E n \in InputNames : ~(DependenciesOf(n) \subseteq InputNames)

ValidPipeline == sorted_steps # <<>> /\ Acyclic /\ FullyReferenced

\* C5: for a valid step list and dependency map, the plan's sorted_steps has
\* the length and order of the input step list and the keys of
\* step_specific_args are exactly the identifiers in sorted_steps.
C5_StepsAndKeys ==
    (Called /\ ValidPipeline) =>
        /\ Returned
        /\ Len(entrypoint.pipeline_config.sorted_steps) = Len(sorted_steps)
        /\ \A i \in DOMAIN sorted_steps :
              entrypoint.pipeline_config.sorted_steps[i] = sorted_steps[i].name
        /\ DOMAIN entrypoint.pipeline_config.step_specific_args
              = Range(entrypoint.pipeline_config.sorted_steps)

\* a plan built for two steps, the second depending on the first
C5_Witness ==
    /\ Returned
    /\ ValidPipeline
    /\ Len(sorted_steps) = 2
    /\ step_dependencies # <<>>
    /\ DOMAIN entrypoint.pipeline_config.step_specific_args = StepNames

\* C6: a dependency set that names an identifier not in the step list is
\* reported as an error and no plan is emitted.
C6_DanglingReferenceReported ==
    (Called /\ DanglingReference) => ~Returned

\* C7: with an empty step list the call fails and returns no argument list;
\* no plan with an empty sorted_steps is emitted.
C7_EmptyStepListFails ==
    /\ (Called /\ sorted_steps = <<>>) => entrypoint.status = "IndexError"
    /\ Returned => entrypoint.pipeline_config.sorted_steps # <<>>

\* the call was made with an empty step list and raised
C7_Witness ==
    /\ sorted_steps = <<>>
    /\ entrypoint.status = "IndexError"

(***************************************************************************)
(* Artifact store: C8 (under SpecStore), C9 and C10 (under SpecStoreConc). *)
(***************************************************************************)
Finished(c) == call[c].pc = "done"

\* dst existed when the call was entered
DstExistedAtCall(c) == call[c].store0[call[c].dst] # Absent

\* C8: a call by a single caller with dst existing and overwrite false fails
\* with FileExistsError, the bucket is as it was and the backend copy / move
\* was not invoked; otherwise the backend operation was invoked, and after a
\* copyfile that returned, dst holds what src held when the call was made.
C8_OverwriteGuard ==
    \A c \in callers :
        Finished(c) =>
            IF ~call[c].overwrite /\ DstExistedAtCall(c)
            THEN /\ call[c].result = "FileExistsError"
                 /\ ~call[c].invoked
                 /\ store = call[c].store0
            ELSE /\ call[c].invoked
                 /\ call[c].result # "FileExistsError"
                 /\ (call[c].op = "copyfile" /\ call[c].result = "ok") =>
                        /\ store[call[c].dst] = call[c].store0[call[c].src]
                        /\ store[call[c].dst] # Absent

\* a first call wrote dst, and a second call to the same dst with overwrite
\* false was refused
C8_Witness ==
    \E c \in callers :
        /\ Finished(c)
        /\ calls_left[c] = 0
        /\ ~call[c].overwrite
        /\ call[c].result = "FileExistsError"
        /\ Len(writes) = 1
        /\ writes[1].dst = call[c].dst
        /\ writes[1].replaced = Absent

\* a copyfile with overwrite true replaced the content of an existing dst
C8_WitnessOverwrite ==
    \E c \in callers :
        /\ Finished(c)
        /\ call[c].op = "copyfile"
        /\ call[c].overwrite
        /\ DstExistedAtCall(c)
        /\ call[c].result = "ok"
        /\ store[call[c].dst] = ContentOf(call[c].src)

\* C9: under any interleaving of first uses of the filesystem property,
\* credentials are resolved and the backend handle constructed at most once,
\* and every caller gets the same handle.
C9_InitializedOnce ==
    /\ resolved <= 1
    /\ constructed <= 1
    /\ \A c, d \in callers :
          (call[c].fs # NoFilesystem /\ call[d].fs # NoFilesystem) =>
              call[c].fs = call[d].fs

\* with one caller the handle is built once and reused by the later calls
C9_SingleCallerReuses ==
    /\ resolved <= 1
    /\ constructed <= 1
    /\ \A c \in callers : call[c].fs \in {NoFilesystem, filesystem}

\* C10: the overwrite guard is check-then-act.  Whether a call with overwrite
\* false raises FileExistsError is decided by what its own existence check
\* saw; once the check saw dst absent the backend copy / move runs, whatever
\* another caller has put at dst in between.
C10_CheckThenAct ==
    \A c \in callers :
        (Finished(c) /\ ~call[c].overwrite) =>
            /\ (call[c].result = "FileExistsError") = (call[c].saw = "exists")
            /\ (call[c].saw = "absent") => call[c].invoked

\* the race of C10: two callers, both with overwrite false and the same dst,
\* both saw dst absent, both backend operations ran, neither call raised, and
\* the second write replaced what the first had put at dst
C10_Race ==
    /\ \A c \in callers :
          /\ Finished(c)
          /\ ~call[c].overwrite
          /\ call[c].saw = "absent"
          /\ call[c].result = "ok"
    /\ Len(writes) = 2
    /\ writes[1].caller # writes[2].caller
    /\ writes[1].dst = writes[2].dst
    /\ writes[2].replaced = writes[1].content
    /\ writes[1].content # writes[2].content
    /\ store[writes[2].dst] = writes[2].content

====
